---------------------------- MODULE Spec2Model ----------------------------
(***************************************************************************)
(* Canadian loan amortization calculator: holiday calculator, business-day *)
(* adjuster and amortization engine.                                       *)
(*                                                                         *)
(* Dates.  A JavaScript Date is modelled by its local calendar day, the    *)
(* number of days since 1970-01-01; getDate, getDay, setDate and the       *)
(* holiday tables work on that day alone.  Where the program reads the     *)
(* instant of a Date (getTime, and <= between two Dates) the model adds    *)
(* the local hour the Date sits at and the runtime's time zone: UTC, or    *)
(* America/Toronto with its daylight saving time.  A date of the input is  *)
(* the Date the engine builds from the "yyyy-MM-dd" string, midnight UTC:  *)
(* behind UTC its local calendar day is the day before the one typed, a    *)
(* shift the model does not represent.                                     *)
(*                                                                         *)
(* The specifications share the variables: SpecHolidays (one call of       *)
(* getCanadianHolidays), SpecAdjuster (adjustPaymentDate, its loop step by *)
(* step; SpecAdjusterFair runs it to completion), SpecPayment (one call of *)
(* calculatePaymentAmount), Spec (calculateAmortizationSchedule, its loop  *)
(* step by step), SpecTwice (the engine called a second time with another  *)
(* paymentType) and SpecUI (the LoanCalculator component: form, watcher,   *)
(* table view and pagination, with the engine running inside onCalculate). *)
(***************************************************************************)
EXTENDS Integers, Sequences, FiniteSets, TLC

(***************************************************************************)
(* Bounds of the model.                                                    *)
(***************************************************************************)
\* getCanadianHolidays is called for the years 1583 .. 1583 + HolidayYearSpan
HolidayYearSpan == 1020
\* adjustPaymentDate is called for every day of 2020 .. 2020 + AdjYearSpan
AdjYearSpan == 9
\* the termination of adjustPaymentDate is checked for every day of
\* 2024 .. 2024 + FairYearSpan
FairYearSpan == 1
\* the longest amortization period, in months
MaxAmortizationMonths == 24
\* the longest wait, in days, from startDate to firstPaymentDate
MaxFirstPaymentGap == 400

(***************************************************************************)
(* The JavaScript Date primitives the program uses.                        *)
(***************************************************************************)
\* new Date(year, monthIndex, day): monthIndex is 0-based, day may overflow the month
NewDate(year, monthIndex, day) ==
    LET m   == monthIndex + 1
        y   == IF m <= 2 THEN year - 1 ELSE year
        era == y \div 400
        yoe == y - era * 400
        mp  == IF m > 2 THEN m - 3 ELSE m + 9
        doy == (153 * mp + 2) \div 5
        doe == yoe * 365 + yoe \div 4 - yoe \div 100 + doy
    IN  era * 146097 + doe - 719468 + (day - 1)

\* the civil date <<year, monthIndex, dayOfMonth>> of a day number
Civil(date) ==
    LET z   == date + 719468
        era == z \div 146097
        doe == z - era * 146097
        yoe == (doe - doe \div 1460 + doe \div 36524 - doe \div 146096) \div 365
        doy == doe - (365 * yoe + yoe \div 4 - yoe \div 100)
        mp  == (5 * doy + 2) \div 153
        d   == doy - (153 * mp + 2) \div 5 + 1
        m   == IF mp < 10 THEN mp + 3 ELSE mp - 9
    IN  << yoe + era * 400 + (IF m <= 2 THEN 1 ELSE 0), m - 1, d >>

getFullYear(date) == Civil(date)[1]
getMonth(date) == Civil(date)[2]
getDate(date) == Civil(date)[3]
\* 0 = Sunday .. 6 = Saturday; 1970-01-01 was a Thursday
getDay(date) == (date + 4) % 7

(***************************************************************************)
(* Holiday calculator (canadian-holidays).                                 *)
(***************************************************************************)
calculateEaster_WrongWeekday(year) ==
    LET a == year % 19
        b == year \div 100
        c == year % 100
        d == b \div 4
        e == b % 4
        f == (b + 8) \div 25
        g == (b - f + 1) \div 3
        h == (19 * a + b - d - g + 15) % 30
        i == c \div 4
        k == c % 4
        l == (30 + 2 * e + 2 * i - h - k) % 7
        m == (a + 11 * h + 22 * l) \div 451
        month == (h + l - 7 * m + 114) \div 31
        day == ((h + l - 7 * m + 114) % 31) + 1
    IN  NewDate(year, month - 1, day)

calculateEaster(year) ==
    LET a == year % 19
        b == year \div 100
        c == year % 100
        d == b \div 4
        e == b % 4
        f == (b + 8) \div 25
        g == (b - f + 1) \div 3
        h == (19 * a + b - d - g + 15) % 30
        i == c \div 4
        k == c % 4
        l == (32 + 2 * e + 2 * i - h - k) % 7
        m == (a + 11 * h + 22 * l) \div 451
        month == (h + l - 7 * m + 114) \div 31
        day == ((h + l - 7 * m + 114) % 31) + 1
    IN  NewDate(year, month - 1, day)

NewYearsDay(year) == NewDate(year, 0, 1)

FamilyDay(year) ==
    LET familyDay == NewDate(year, 1, 1)
        firstMonday == IF getDay(familyDay) = 1 THEN familyDay
                       ELSE NewDate(year, 1, 8 - getDay(familyDay))
    IN  firstMonday + 14

GoodFriday(easter) == easter - 2

EasterMonday(easter) == easter + 1

\* the Monday strictly before May 25: a Monday May 25 gives May 18
VictoriaDay_StrictlyBefore(year) ==
    LET victoria == NewDate(year, 4, 25)
    IN  victoria - (((getDay(victoria) + 6) % 7) + (IF getDay(victoria) = 1 THEN 7 ELSE 0))

VictoriaDay(year) ==
    LET victoria == NewDate(year, 4, 25)
    IN  victoria - ((getDay(victoria) + 6) % 7)

CanadaDay_ShiftSaturdayToo(year) ==
    LET canadaDay == NewDate(year, 6, 1)
    IN  IF getDay(canadaDay) = 0 THEN NewDate(year, 6, 2)
        ELSE IF getDay(canadaDay) = 6 THEN NewDate(year, 6, 3)
        ELSE canadaDay

CanadaDay(year) ==
    LET canadaDay == NewDate(year, 6, 1)
    IN  IF getDay(canadaDay) = 0 THEN NewDate(year, 6, 2) ELSE canadaDay

CivicHoliday(year) ==
    LET civicHoliday == NewDate(year, 7, 1)
    IN  IF getDay(civicHoliday) = 1 THEN civicHoliday
        ELSE NewDate(year, 7, 8 - getDay(civicHoliday))

LabourDay(year) ==
    LET labourDay == NewDate(year, 8, 1)
    IN  IF getDay(labourDay) = 1 THEN labourDay
        ELSE NewDate(year, 8, 8 - getDay(labourDay))

Thanksgiving(year) ==
    LET thanksgiving == NewDate(year, 9, 1)
        firstMondayOct == IF getDay(thanksgiving) = 1 THEN thanksgiving
                          ELSE NewDate(year, 9, 8 - getDay(thanksgiving))
    IN  firstMondayOct + 7

RemembranceDay(year) == NewDate(year, 10, 11)

Christmas(year) ==
    LET christmas == NewDate(year, 11, 25)
    IN  IF getDay(christmas) = 0 THEN NewDate(year, 11, 26) ELSE christmas

BoxingDay(year) ==
    LET boxingDay == NewDate(year, 11, 26)
    IN  IF getDay(boxingDay) = 0 THEN NewDate(year, 11, 27)
        ELSE IF getDay(boxingDay) = 6 THEN NewDate(year, 11, 28)
        ELSE boxingDay

\* the list in push order: 1 New Year, 2 Family Day, 3 Good Friday, 4 Easter
\* Monday, 5 Victoria Day, 6 Canada Day, 7 Civic Holiday, 8 Labour Day,
\* 9 Thanksgiving, 10 Remembrance Day, 11 Christmas, 12 Boxing Day
getCanadianHolidays(year) ==
    LET easter == calculateEaster(year)
    IN  << NewYearsDay(year), FamilyDay(year), GoodFriday(easter),
           EasterMonday(easter), VictoriaDay(year), CanadaDay(year),
           CivicHoliday(year), LabourDay(year), Thanksgiving(year),
           RemembranceDay(year), Christmas(year), BoxingDay(year) >>

isCanadianHoliday(date) ==
    \E year \in { getFullYear(date) } :
    \E holidays \in { getCanadianHolidays(year) } :
    \E n \in 1..Len(holidays) :
        /\ getFullYear(holidays[n]) = getFullYear(date)
        /\ getMonth(holidays[n]) = getMonth(date)
        /\ getDate(holidays[n]) = getDate(date)

(***************************************************************************)
(* Business-day adjuster (business-days).                                  *)
(***************************************************************************)
\* a weekend of three days, Friday to Sunday
isWeekend_FridayToo(date) ==
    LET day == getDay(date)
    IN  day = 0 \/ day = 5 \/ day = 6

isWeekend(date) ==
    LET day == getDay(date)
    IN  day = 0 \/ day = 6

isBusinessDay(date) == ~isWeekend(date) /\ ~isCanadianHoliday(date)

(***************************************************************************)
(* Numbers.  The program computes in IEEE-754 doubles; the model computes  *)
(* in fixed point, every product and quotient rounded down:                *)
(*   money in cents (0.01 is 1), annualInterestRate in hundredths of a     *)
(*   percent (0.01 is 1, 50 is 5000), rates and growth factors in units of *)
(*   1 / RateScale.                                                        *)
(* The model checker's integers are 32 bits wide: RateMul and MulDiv keep  *)
(* the intermediate products inside that range, for growth factors below   *)
(* 4.6 and amounts below 2^31 cents, which the inputs of Spec respect.     *)
(* A growth factor (1 + r)^n carries eight decimals, so the payment is     *)
(* exact to the cent for everyday rates and to about one part in           *)
(* ((1 + r)^n - 1) * RateScale / n for rates near the minimum of 0.01 %.   *)
(* The integer floor of TotalPayments is exact; the double expression      *)
(* (amortizationMonths / 12) * paymentsPerYear agrees with it on every     *)
(* input of Spec.                                                          *)
(***************************************************************************)
RateScale == 10000 * 10000
\* RateScale = RateLimb * RateLimb
RateLimb == 100 * 100

\* x * y for two factors in units of 1 / RateScale, each below 4.6:
\* floor(x * y / RateScale) by two-limb multiplication
RateMul(x, y) ==
    LET x1 == x \div RateLimb
        x0 == x % RateLimb
        y1 == y \div RateLimb
        y0 == y % RateLimb
    IN  x1 * y1 + (x1 * y0 + x0 * y1 + (x0 * y0) \div RateLimb) \div RateLimb

RECURSIVE RatePowInt(_, _)
\* Math.pow(x, n) for an integer n >= 0, by repeated squaring
RatePowInt(x, n) ==
    IF n = 0 THEN RateScale
    ELSE LET half == RatePowInt(x, n \div 2)
             sq   == RateMul(half, half)
         IN  IF n % 2 = 1 THEN RateMul(sq, x) ELSE sq

RECURSIVE Gcd(_, _)
Gcd(a, b) == IF b = 0 THEN a ELSE Gcd(b, a % b)

RECURSIVE RateRootSearch(_, _, _, _)
\* the largest y in lo..hi with y^q <= target (lo^q <= target)
RateRootSearch(target, q, lo, hi) ==
    IF lo >= hi THEN lo
    ELSE LET mid == lo + (hi - lo + 1) \div 2
         IN  IF RatePowInt(mid, q) <= target
               THEN RateRootSearch(target, q, mid, hi)
               ELSE RateRootSearch(target, q, lo, mid - 1)

\* Math.pow(x, num / den) for x >= 1 and integers num >= 0, den >= 1:
\* the q-th root of x^p, which is at most 1 + (x^p - 1) / q
RatePow(x, num, den) ==
    LET g  == Gcd(num, den)
        p  == num \div g
        q  == den \div g
        xp == RatePowInt(x, p)
    IN  IF q = 1 THEN xp
        ELSE RateRootSearch(xp, q, RateScale, RateScale + (xp - RateScale) \div q + 1)

RECURSIVE MulDivQR(_, _, _)
\* << q, r >> with a * b = q * c + r and 0 <= r < c, for a, b >= 0 and 0 < c < 2^30
MulDivQR(a, b, c) ==
    IF b = 0 THEN << 0, 0 >>
    ELSE LET half == MulDivQR(a, b \div 2, c)
             r2   == 2 * half[2]
             add  == IF b % 2 = 1 THEN a ELSE 0
             r3   == (r2 % c) + (add % c)
         IN  << 2 * half[1] + (r2 \div c) + (add \div c) + (r3 \div c), r3 % c >>

\* floor(a * b / c)
MulDiv(a, b, c) == MulDivQR(a, b, c)[1]

\* Math.round(365.25 / paymentsPerYear): round half up
RoundDaysPerPayment(paymentsPerYear) ==
    (2 * 36525 + 100 * paymentsPerYear) \div (200 * paymentsPerYear)

\* Math.max(0, x)
Max0(x) == IF x > 0 THEN x ELSE 0

\* the double Infinity (a positive number divided by 0)
Infinity == "Infinity"

RECURSIVE WhileNotBusinessDay(_)
\* while (!isBusinessDay(nextDay)) nextDay.setDate(nextDay.getDate() + 1)
WhileNotBusinessDay(nextDay) ==
    IF isBusinessDay(nextDay) THEN nextDay ELSE WhileNotBusinessDay(nextDay + 1)

getNextBusinessDay(date) == WhileNotBusinessDay(date + 1)

adjustPaymentDate(date) ==
    IF isBusinessDay(date) THEN date ELSE getNextBusinessDay(date)

(***************************************************************************)
(* The instant of a Date.  A Date with its time is the record              *)
(* [date |-> local calendar day, hours |-> getHours()]; instants are       *)
(* counted in hours since 1970-01-01T00:00Z.                               *)
(***************************************************************************)
TimeZones == { "UTC", "America/Toronto" }

\* the n-th Sunday of a month, n = 1, 2, ...
NthSunday(year, monthIndex, n) ==
    LET first == NewDate(year, monthIndex, 1)
    IN  first + ((7 - getDay(first)) % 7) + 7 * (n - 1)

\* daylight saving time is in force in the evening of the local day: in
\* America/Toronto from the second Sunday of March (02:00 becomes 03:00) to
\* the first Sunday of November (02:00 becomes 01:00)
DaylightSaving(zone, date) ==
    /\ zone = "America/Toronto"
    /\ date >= NthSunday(getFullYear(date), 2, 2)
    /\ date < NthSunday(getFullYear(date), 10, 1)

\* -getTimezoneOffset() / 60 in the evening of the local day
UtcOffset(zone, date) ==
    IF zone = "UTC" THEN 0 ELSE IF DaylightSaving(zone, date) THEN -4 ELSE -5

\* new Date("yyyy-MM-dd"), midnight UTC, seen in the zone: 00:00 in UTC, 19:00
\* (20:00 in summer) of the local day in America/Toronto
ParseDate(zone, date) == [ date |-> date, hours |-> (24 + UtcOffset(zone, date)) % 24 ]

\* setDate(...) moves the calendar day and keeps the local time of day
SetDate(d, date) == [ date |-> date, hours |-> d.hours ]

\* getTime(), in hours
getTime(zone, d) == 24 * d.date + d.hours - UtcOffset(zone, d.date)

\* Math.ceil(timeDiff / (1000 * 3600 * 24)) of two instants
getDaysBetween(startDate, endDate) == -((startDate - endDate) \div 24)

(***************************************************************************)
(* Amortization engine (financial-calculations).                           *)
(***************************************************************************)
\* the annuity formula evaluated whatever the rate: 0 / 0 when the rate is 0
calculatePaymentAmount_NoZeroRateBranch(principal, annualRate, nPayments, perYear, compounding) ==
    LET base == RateScale + ((RateScale \div 10000) * annualRate) \div compounding
        effectiveRate == RatePow(base, compounding, perYear) - RateScale
        growth == RatePowInt(RateScale + effectiveRate, nPayments)
    IN  IF growth = RateScale
          THEN IF effectiveRate = 0 THEN "NaN" ELSE Infinity
          ELSE MulDiv(principal, MulDiv(effectiveRate, growth, growth - RateScale), RateScale)

\* the nominal rate split evenly over the payments: annualRate / 100 / paymentsPerYear
calculatePaymentAmount_NominalRate(principal, annualRate, nPayments, perYear, compounding) ==
    LET effectiveRate == ((RateScale \div 10000) * annualRate) \div perYear
        growth == RatePowInt(RateScale + effectiveRate, nPayments)
    IN  IF effectiveRate = 0
          THEN IF nPayments = 0 THEN Infinity ELSE principal \div nPayments
          ELSE IF growth = RateScale THEN Infinity
          ELSE MulDiv(principal, MulDiv(effectiveRate, growth, growth - RateScale), RateScale)

\* principal in cents, annualRate in hundredths of a percent
calculatePaymentAmount(principal, annualRate, nPayments, perYear, compounding) ==
    LET base == RateScale + ((RateScale \div 10000) * annualRate) \div compounding
        effectiveRate == RatePow(base, compounding, perYear) - RateScale
        growth == RatePowInt(RateScale + effectiveRate, nPayments)
    IN  IF effectiveRate = 0
          THEN IF nPayments = 0 THEN Infinity ELSE principal \div nPayments
          ELSE IF growth = RateScale THEN Infinity
          ELSE MulDiv(principal, MulDiv(effectiveRate, growth, growth - RateScale), RateScale)

\* Math.ceil in place of Math.floor
TotalPayments_Ceil(in) == (in.amortizationMonths * in.paymentsPerYear + 11) \div 12

\* Math.floor((amortizationMonths / 12) * paymentsPerYear)
TotalPayments(in) == (in.amortizationMonths * in.paymentsPerYear) \div 12

\* currentBalance * (annualInterestRate / 100 / 365.25) * daysBetween
InterestPayment(currentBalance, annualInterestRate, daysBetween) ==
    MulDiv(currentBalance, annualInterestRate * daysBetween, 3652500)

\* 0.01, in cents
PaidOffThreshold == 1

\* the loop without its break
PaidOff_Never(balance) == FALSE

\* currentBalance <= 0.01
PaidOff(balance) == balance <= PaidOffThreshold

\* currentBalance = endingBalance skipped: the balance of the row before stays
NextBalance_Stale(row) == row.beginningBalance

\* currentBalance = endingBalance
NextBalance(row) == row.endingBalance

RECURSIVE SumScheduledPayment_FromSecond(_, _)
\* the reduce without its initial value: the first row seeds the sum as an object
SumScheduledPayment_FromSecond(rows, n) ==
    IF n <= 1 THEN 0
    ELSE SumScheduledPayment_FromSecond(rows, n - 1) + rows[n].scheduledPayment

RECURSIVE SumScheduledPayment(_, _)
\* schedule.reduce((sum, row) => sum + row.scheduledPayment, 0) over the first n rows
SumScheduledPayment(rows, n) ==
    IF n = 0 THEN 0 ELSE SumScheduledPayment(rows, n - 1) + rows[n].scheduledPayment

VARIABLES
    hYear,        \* the year getCanadianHolidays is called with
    hPc,          \* "call" before the call, "done" after it returned
    hEaster,      \* the local easter of getCanadianHolidays
    hHolidays,    \* the returned list
    aInput,       \* the date the caller first passed to adjustPaymentDate
    aDate,        \* the argument of the current call of adjustPaymentDate
    aNextDay,     \* the cursor nextDay of getNextBusinessDay
    aPc,          \* "call", "loop" (inside getNextBusinessDay's while), "ret"
    aResult,      \* the value the current call returned
    aFirst,       \* the value the first call returned
    aCalls,       \* 1 in the first call, 2 once its result was passed back in
    input,        \* the LoanInput calculateAmortizationSchedule is called with
    pc,           \* "call", "loop", "summary", "done"
    totalPayments,
    monthlyPayment,
    paymentFrequencyDays,
    schedule,
    currentBalance,
    cumulativeInterest,
    previousPaymentDate,
    rateTermInterest,
    rateTermPrincipal,
    i,            \* the loop index
    summary,      \* the LoanSummary, << >> until it is built
    pArgs,        \* the arguments calculatePaymentAmount is called with
    pPc,          \* "call" before the call, "done" after it returned
    pResult,      \* the returned payment
    runs,         \* 1 in the first call of the engine, 2 in a second call
    firstResult,  \* what the first call returned, << >> until a second call
    timeZone,     \* the time zone of the runtime
    formValues,   \* LoanCalculator: the values in the form
    isValid,      \* form.formState.isValid
    uiPc,         \* "idle", "watch" and "submit" (inside onCalculate), "validate"
    isCalculating,
    uiSchedule,   \* the component's state schedule
    uiSummary,    \* the component's state summary, << >> for null
    currentPage,
    tableView,
    filteredSchedule   \* the memoized filteredSchedule

hvars == << hYear, hPc, hEaster, hHolidays >>
avars == << aInput, aDate, aNextDay, aPc, aResult, aFirst, aCalls >>
evars == << input, pc, totalPayments, monthlyPayment, paymentFrequencyDays,
           schedule, currentBalance, cumulativeInterest, previousPaymentDate,
           rateTermInterest, rateTermPrincipal, i, summary >>
pvars == << pArgs, pPc, pResult >>
tvars == << runs, firstResult >>
zvars == << timeZone >>
uvars == << formValues, isValid, uiPc, isCalculating, uiSchedule, uiSummary,
           currentPage, tableView, filteredSchedule >>
vars == << hvars, avars, evars, pvars, tvars, zvars, uvars >>

(***************************************************************************)
(* getCanadianHolidays called for one year.                                *)
(***************************************************************************)
HolidayYears == 1583 .. (1583 + HolidayYearSpan)

CallGetCanadianHolidays ==
    /\ hPc = "call"
    /\ hEaster' = calculateEaster(hYear)
    /\ hHolidays' = getCanadianHolidays(hYear)
    /\ hPc' = "done"
    /\ UNCHANGED hYear

(***************************************************************************)
(* adjustPaymentDate called for one date, then again for its own result.   *)
(* The while loop of getNextBusinessDay takes one step per iteration.      *)
(***************************************************************************)
AdjustDates == NewDate(2020, 0, 1) .. (NewDate(2020 + AdjYearSpan + 1, 0, 1) - 1)

\* adjustPaymentDate entered without its isBusinessDay test
AdjustPaymentDateCall_NoTest ==
    /\ aPc = "call"
    /\ aNextDay' = aDate + 1
    /\ aPc' = "loop"
    /\ UNCHANGED << aInput, aDate, aResult, aFirst, aCalls >>

\* adjustPaymentDate up to the loop test of getNextBusinessDay
AdjustPaymentDateCall ==
    /\ aPc = "call"
    /\ IF isBusinessDay(aDate)
         THEN /\ aResult' = aDate
              /\ aPc' = "ret"
              /\ UNCHANGED aNextDay
         ELSE /\ aNextDay' = aDate + 1
              /\ aPc' = "loop"
              /\ UNCHANGED aResult
    /\ UNCHANGED << aInput, aDate, aFirst, aCalls >>

\* an iteration that leaves the cursor where it is
NextBusinessDayStep_NoAdvance ==
    /\ aPc = "loop"
    /\ ~isBusinessDay(aNextDay)
    /\ UNCHANGED << aInput, aDate, aNextDay, aPc, aResult, aFirst, aCalls >>

\* one iteration of while (!isBusinessDay(nextDay))
NextBusinessDayStep ==
    /\ aPc = "loop"
    /\ ~isBusinessDay(aNextDay)
    /\ aNextDay' = aNextDay + 1
    /\ UNCHANGED << aInput, aDate, aPc, aResult, aFirst, aCalls >>

\* the loop test fails: return nextDay
NextBusinessDayReturn ==
    /\ aPc = "loop"
    /\ isBusinessDay(aNextDay)
    /\ aResult' = aNextDay
    /\ aPc' = "ret"
    /\ UNCHANGED << aInput, aDate, aNextDay, aFirst, aCalls >>

\* the caller passes the returned date to adjustPaymentDate again
AdjustAgain ==
    /\ aPc = "ret"
    /\ aCalls = 1
    /\ aFirst' = aResult
    /\ aDate' = aResult
    /\ aCalls' = 2
    /\ aPc' = "call"
    /\ UNCHANGED << aInput, aNextDay, aResult >>

(***************************************************************************)
(* calculateAmortizationSchedule called with one validated LoanInput.      *)
(* The for loop takes one step per iteration.                              *)
(***************************************************************************)
LoanAmounts == { 100000, 50000000 }
AnnualInterestRates == { 1, 525, 5000 }
AmortizationMonths == { 1, 12, MaxAmortizationMonths }
PaymentsPerYear == { 1, 12, 26 }
CompoundingFrequencies == { 1, 2, 12 }
StartDates == { NewDate(2024, 0, 15) }
FirstPaymentGaps == { 0, 31, MaxFirstPaymentGap }
RateTermGaps == { 1, 182, 1827 }

\* loanInputSchema: the ranges and the refinement on the dates
ValidLoanInput(in) ==
    /\ in.loanAmount >= 1000 * 100 /\ in.loanAmount \div 100 <= 100000000
    /\ in.annualInterestRate >= 1 /\ in.annualInterestRate <= 5000
    /\ in.rateTermMonths >= 1 /\ in.rateTermMonths <= 600
    /\ in.amortizationMonths >= 1 /\ in.amortizationMonths <= 600
    /\ in.paymentsPerYear >= 1 /\ in.paymentsPerYear <= 365
    /\ in.compoundingFrequency >= 1 /\ in.compoundingFrequency <= 365
    /\ in.paymentType \in { "end", "beginning" }
    /\ in.firstPaymentDate >= in.startDate
    /\ in.rateTermMaturityDate > in.startDate

\* daily payments (paymentsPerYear at its maximum 365): a payment date for
\* every calendar day, weekends and holidays included
DailyAmortizationMonths == { 1, 3 }
DailyLoanInputs ==
    { in \in [ loanAmount : { 100000 },
               annualInterestRate : { 525, 5000 },
               rateTermMonths : { 60 },
               amortizationMonths : DailyAmortizationMonths,
               paymentsPerYear : { 365 },
               startDate : StartDates,
               firstPaymentDate : { s + g : s \in StartDates, g \in { 0, 31 } },
               rateTermMaturityDate : { s + 182 : s \in StartDates },
               compoundingFrequency : { 2 },
               paymentType : { "end" } ] :
      ValidLoanInput(in) }

\* two payments a year, 182.625 days apart before rounding; the first one in
\* summer, the second one on the day the rate term matures.  The engine
\* never reads paymentType: both values are tried here and in SpecTwice
SemiAnnualLoanInputs ==
    { in \in [ loanAmount : { 100000 },
               annualInterestRate : { 525 },
               rateTermMonths : { 12 },
               amortizationMonths : { 12, 24 },
               paymentsPerYear : { 2 },
               startDate : StartDates,
               firstPaymentDate : { s + 182 : s \in StartDates },
               rateTermMaturityDate : { s + 365 : s \in StartDates },
               compoundingFrequency : { 2 },
               paymentType : { "end", "beginning" } ] :
      ValidLoanInput(in) }

LoanInputs ==
    { in \in [ loanAmount : LoanAmounts,
               annualInterestRate : AnnualInterestRates,
               rateTermMonths : { 60 },
               amortizationMonths : AmortizationMonths,
               paymentsPerYear : PaymentsPerYear,
               startDate : StartDates,
               firstPaymentDate : { s + g : s \in StartDates, g \in FirstPaymentGaps },
               rateTermMaturityDate : { s + g : s \in StartDates, g \in RateTermGaps },
               compoundingFrequency : CompoundingFrequencies,
               paymentType : { "end" } ] :
      ValidLoanInput(in) }
    \cup DailyLoanInputs \cup SemiAnnualLoanInputs

\* the function up to the for loop
EngineSetup ==
    /\ pc = "call"
    /\ totalPayments' = TotalPayments(input)
    /\ monthlyPayment' = calculatePaymentAmount(input.loanAmount,
                             input.annualInterestRate, TotalPayments(input),
                             input.paymentsPerYear, input.compoundingFrequency)
    /\ paymentFrequencyDays' = RoundDaysPerPayment(input.paymentsPerYear)
    /\ schedule' = << >>
    /\ currentBalance' = input.loanAmount
    /\ cumulativeInterest' = 0
    /\ previousPaymentDate' = ParseDate(timeZone, input.startDate)
    /\ rateTermInterest' = 0
    /\ rateTermPrincipal' = 0
    /\ i' = 1
    /\ pc' = "loop"
    /\ UNCHANGED << input, summary >>

\* the row pushed before cumulativeInterest += interestPayment
PaymentRowOf_StaleCumulative(adjustedPaymentDate, daysBetween, interestPayment, principalPayment) ==
    [ paymentNumber |-> i,
      paymentDate |-> adjustedPaymentDate,
      beginningBalance |-> currentBalance,
      scheduledPayment |-> principalPayment + interestPayment,
      principalPayment |-> principalPayment,
      interestPayment |-> interestPayment,
      endingBalance |-> Max0(currentBalance - principalPayment),
      cumulativeInterest |-> cumulativeInterest,
      daysBetweenPayments |-> daysBetween ]

\* the row with the fixed payment written as its scheduledPayment
PaymentRowOf_FixedScheduled(adjustedPaymentDate, daysBetween, interestPayment, principalPayment) ==
    [ paymentNumber |-> i,
      paymentDate |-> adjustedPaymentDate,
      beginningBalance |-> currentBalance,
      scheduledPayment |-> monthlyPayment,
      principalPayment |-> principalPayment,
      interestPayment |-> interestPayment,
      endingBalance |-> Max0(currentBalance - principalPayment),
      cumulativeInterest |-> cumulativeInterest + interestPayment,
      daysBetweenPayments |-> daysBetween ]

\* the row numbered from 0, by the rows already pushed
PaymentRowOf_ZeroBased(adjustedPaymentDate, daysBetween, interestPayment, principalPayment) ==
    [ paymentNumber |-> Len(schedule),
      paymentDate |-> adjustedPaymentDate,
      beginningBalance |-> currentBalance,
      scheduledPayment |-> principalPayment + interestPayment,
      principalPayment |-> principalPayment,
      interestPayment |-> interestPayment,
      endingBalance |-> Max0(currentBalance - principalPayment),
      cumulativeInterest |-> cumulativeInterest + interestPayment,
      daysBetweenPayments |-> daysBetween ]

\* the row of iteration i
PaymentRowOf(adjustedPaymentDate, daysBetween, interestPayment, principalPayment) ==
    [ paymentNumber |-> i,
      paymentDate |-> adjustedPaymentDate,
      beginningBalance |-> currentBalance,
      scheduledPayment |-> principalPayment + interestPayment,
      principalPayment |-> principalPayment,
      interestPayment |-> interestPayment,
      endingBalance |-> Max0(currentBalance - principalPayment),
      cumulativeInterest |-> cumulativeInterest + interestPayment,
      daysBetweenPayments |-> daysBetween ]

\* the interest charged on top of the payment instead of taken out of it
PrincipalPayment_InterestOnTop(interestPayment) ==
    IF i = totalPayments \/ monthlyPayment > currentBalance
      THEN currentBalance
      ELSE monthlyPayment

\* payments at the beginning of the period: the first one, made before any
\* interest has accrued, goes to the principal in full
PrincipalPayment_BeginningOfPeriod(interestPayment) ==
    IF i = totalPayments \/ monthlyPayment - interestPayment > currentBalance
      THEN currentBalance
      ELSE IF input.paymentType = "beginning" /\ i = 1
             THEN monthlyPayment
             ELSE monthlyPayment - interestPayment

\* the final scheduled index not forced to pay the balance off
PrincipalPayment_NoFinalPayoff(interestPayment) ==
    IF monthlyPayment - interestPayment > currentBalance
      THEN currentBalance
      ELSE monthlyPayment - interestPayment

\* a payment larger than the balance not cut down to the balance
PrincipalPayment_NoPayoffCap(interestPayment) ==
    IF i = totalPayments
      THEN currentBalance
      ELSE monthlyPayment - interestPayment

\* principalPayment: monthlyPayment - interestPayment, or the whole balance
PrincipalPayment(interestPayment) ==
    IF i = totalPayments \/ monthlyPayment - interestPayment > currentBalance
      THEN currentBalance
      ELSE monthlyPayment - interestPayment

\* the next date counted from the previous payment's adjusted date
ScheduledDate_FromPrevious ==
    IF i = 1 THEN input.firstPaymentDate
             ELSE previousPaymentDate.date + paymentFrequencyDays

\* scheduledDate: firstPaymentDate moved by (i - 1) * paymentFrequencyDays days
ScheduledDate == input.firstPaymentDate + (i - 1) * paymentFrequencyDays

\* one iteration of for (let i = 1; i <= totalPayments; i++), break included
LoopIteration ==
    /\ pc = "loop"
    /\ i <= totalPayments
    /\ \E adjustedPaymentDate \in
            { adjustPaymentDate(ScheduledDate) } :
       \E adjusted \in
            { SetDate(ParseDate(timeZone, input.firstPaymentDate), adjustedPaymentDate) } :
       \E daysBetween \in
            { getDaysBetween(getTime(timeZone, previousPaymentDate),
                             getTime(timeZone, adjusted)) } :
       \E interestPayment \in
            { InterestPayment(currentBalance, input.annualInterestRate, daysBetween) } :
       LET principalPayment == PrincipalPayment(interestPayment)
           row == PaymentRowOf(adjustedPaymentDate, daysBetween, interestPayment,
                               principalPayment)
       IN  /\ cumulativeInterest' = cumulativeInterest + interestPayment
           /\ IF getTime(timeZone, adjusted)
                   <= getTime(timeZone, ParseDate(timeZone, input.rateTermMaturityDate))
                THEN /\ rateTermInterest' = rateTermInterest + interestPayment
                     /\ rateTermPrincipal' = rateTermPrincipal + principalPayment
                ELSE UNCHANGED << rateTermInterest, rateTermPrincipal >>
           /\ schedule' = Append(schedule, row)
           /\ currentBalance' = NextBalance(row)
           /\ previousPaymentDate' = adjusted
           /\ IF PaidOff(row.endingBalance)
                THEN pc' = "summary" /\ UNCHANGED i
                ELSE pc' = "loop" /\ i' = i + 1
    /\ UNCHANGED << input, totalPayments, monthlyPayment, paymentFrequencyDays, summary >>

\* the loop condition i <= totalPayments fails
LoopExit ==
    /\ pc = "loop"
    /\ i > totalPayments
    /\ pc' = "summary"
    /\ UNCHANGED << input, totalPayments, monthlyPayment, paymentFrequencyDays,
                    schedule, currentBalance, cumulativeInterest,
                    previousPaymentDate, rateTermInterest, rateTermPrincipal, i,
                    summary >>

\* the summary is built and the function returns
BuildSummary ==
    /\ pc = "summary"
    /\ summary' = [ monthlyPayment |-> monthlyPayment,
                    totalInterest |-> cumulativeInterest,
                    totalPayments |-> SumScheduledPayment(schedule, Len(schedule)),
                    rateTermInterest |-> rateTermInterest,
                    rateTermPrincipal |-> rateTermPrincipal,
                    numberOfPayments |-> Len(schedule) ]
    /\ pc' = "done"
    /\ UNCHANGED << input, totalPayments, monthlyPayment, paymentFrequencyDays,
                    schedule, currentBalance, cumulativeInterest,
                    previousPaymentDate, rateTermInterest, rateTermPrincipal, i >>

(***************************************************************************)
(* calculatePaymentAmount called on its own: it is exported, and nothing   *)
(* in it restricts annualRate, so a rate of 0 is among the arguments.      *)
(* totalPayments is what the engine would pass for the amortization.       *)
(***************************************************************************)
PaymentArgs ==
    { [ principal |-> l,
        annualRate |-> a,
        totalPayments |-> (m * y) \div 12,
        paymentsPerYear |-> y,
        compoundingFrequency |-> c ] :
      l \in LoanAmounts, a \in { 0 } \cup AnnualInterestRates,
      m \in AmortizationMonths, y \in PaymentsPerYear, c \in CompoundingFrequencies }

CallCalculatePaymentAmount ==
    /\ pPc = "call"
    /\ pResult' = calculatePaymentAmount(pArgs.principal, pArgs.annualRate,
                       pArgs.totalPayments, pArgs.paymentsPerYear,
                       pArgs.compoundingFrequency)
    /\ pPc' = "done"
    /\ UNCHANGED pArgs

(***************************************************************************)
(* Specifications.                                                         *)
(***************************************************************************)
HolidaysNext == CallGetCanadianHolidays /\ UNCHANGED << avars, evars, pvars, tvars, zvars, uvars >>

InitHolidays ==
    /\ hYear \in HolidayYears /\ hPc = "call" /\ hEaster = 0 /\ hHolidays = << >>
    /\ aInput = 0 /\ aDate = 0 /\ aNextDay = 0 /\ aPc = "idle"
    /\ aResult = 0 /\ aFirst = 0 /\ aCalls = 0
    /\ input = << >> /\ pc = "idle" /\ totalPayments = 0 /\ monthlyPayment = 0
    /\ paymentFrequencyDays = 0 /\ schedule = << >> /\ currentBalance = 0
    /\ cumulativeInterest = 0 /\ previousPaymentDate = 0 /\ rateTermInterest = 0
    /\ rateTermPrincipal = 0 /\ i = 0 /\ summary = << >>
    /\ pArgs = << >> /\ pPc = "idle" /\ pResult = 0
    /\ runs = 0 /\ firstResult = << >> /\ timeZone = "UTC"
    /\ formValues = << >> /\ isValid = FALSE /\ uiPc = "off" /\ isCalculating = FALSE
    /\ uiSchedule = << >> /\ uiSummary = << >> /\ currentPage = 1
    /\ tableView = "rate-term" /\ filteredSchedule = << >>

SpecHolidays == InitHolidays /\ [][HolidaysNext]_vars

AdjusterNext ==
    \/ AdjustPaymentDateCall /\ UNCHANGED << hvars, evars, pvars, tvars, zvars, uvars >>
    \/ NextBusinessDayStep /\ UNCHANGED << hvars, evars, pvars, tvars, zvars, uvars >>
    \/ NextBusinessDayReturn /\ UNCHANGED << hvars, evars, pvars, tvars, zvars, uvars >>
    \/ AdjustAgain /\ UNCHANGED << hvars, evars, pvars, tvars, zvars, uvars >>

InitAdjuster ==
    /\ hYear = 0 /\ hPc = "idle" /\ hEaster = 0 /\ hHolidays = << >>
    /\ aInput \in AdjustDates /\ aDate = aInput /\ aNextDay = aInput /\ aPc = "call"
    /\ aResult = aInput /\ aFirst = aInput /\ aCalls = 1
    /\ input = << >> /\ pc = "idle" /\ totalPayments = 0 /\ monthlyPayment = 0
    /\ paymentFrequencyDays = 0 /\ schedule = << >> /\ currentBalance = 0
    /\ cumulativeInterest = 0 /\ previousPaymentDate = 0 /\ rateTermInterest = 0
    /\ rateTermPrincipal = 0 /\ i = 0 /\ summary = << >>
    /\ pArgs = << >> /\ pPc = "idle" /\ pResult = 0
    /\ runs = 0 /\ firstResult = << >> /\ timeZone = "UTC"
    /\ formValues = << >> /\ isValid = FALSE /\ uiPc = "off" /\ isCalculating = FALSE
    /\ uiSchedule = << >> /\ uiSummary = << >> /\ currentPage = 1
    /\ tableView = "rate-term" /\ filteredSchedule = << >>

SpecAdjuster == InitAdjuster /\ [][AdjusterNext]_vars

FairAdjustDates == NewDate(2024, 0, 1) .. (NewDate(2024 + FairYearSpan + 1, 0, 1) - 1)

InitAdjusterFair ==
    /\ hYear = 0 /\ hPc = "idle" /\ hEaster = 0 /\ hHolidays = << >>
    /\ aInput \in FairAdjustDates /\ aDate = aInput /\ aNextDay = aInput /\ aPc = "call"
    /\ aResult = aInput /\ aFirst = aInput /\ aCalls = 1
    /\ input = << >> /\ pc = "idle" /\ totalPayments = 0 /\ monthlyPayment = 0
    /\ paymentFrequencyDays = 0 /\ schedule = << >> /\ currentBalance = 0
    /\ cumulativeInterest = 0 /\ previousPaymentDate = 0 /\ rateTermInterest = 0
    /\ rateTermPrincipal = 0 /\ i = 0 /\ summary = << >>
    /\ pArgs = << >> /\ pPc = "idle" /\ pResult = 0
    /\ runs = 0 /\ firstResult = << >> /\ timeZone = "UTC"
    /\ formValues = << >> /\ isValid = FALSE /\ uiPc = "off" /\ isCalculating = FALSE
    /\ uiSchedule = << >> /\ uiSummary = << >> /\ currentPage = 1
    /\ tableView = "rate-term" /\ filteredSchedule = << >>

\* the same calls run to completion: the program is sequential, so a statement
\* that can execute does execute
SpecAdjusterFair == InitAdjusterFair /\ [][AdjusterNext]_vars /\ WF_vars(AdjusterNext)

PaymentNext == CallCalculatePaymentAmount /\ UNCHANGED << hvars, avars, evars, tvars, zvars, uvars >>

InitPayment ==
    /\ hYear = 0 /\ hPc = "idle" /\ hEaster = 0 /\ hHolidays = << >>
    /\ aInput = 0 /\ aDate = 0 /\ aNextDay = 0 /\ aPc = "idle"
    /\ aResult = 0 /\ aFirst = 0 /\ aCalls = 0
    /\ input = << >> /\ pc = "idle" /\ totalPayments = 0 /\ monthlyPayment = 0
    /\ paymentFrequencyDays = 0 /\ schedule = << >> /\ currentBalance = 0
    /\ cumulativeInterest = 0 /\ previousPaymentDate = 0 /\ rateTermInterest = 0
    /\ rateTermPrincipal = 0 /\ i = 0 /\ summary = << >>
    /\ pArgs \in PaymentArgs /\ pPc = "call" /\ pResult = 0
    /\ runs = 0 /\ firstResult = << >> /\ timeZone = "UTC"
    /\ formValues = << >> /\ isValid = FALSE /\ uiPc = "off" /\ isCalculating = FALSE
    /\ uiSchedule = << >> /\ uiSummary = << >> /\ currentPage = 1
    /\ tableView = "rate-term" /\ filteredSchedule = << >>

SpecPayment == InitPayment /\ [][PaymentNext]_vars

Init ==
    /\ hYear = 0 /\ hPc = "idle" /\ hEaster = 0 /\ hHolidays = << >>
    /\ aInput = 0 /\ aDate = 0 /\ aNextDay = 0 /\ aPc = "idle"
    /\ aResult = 0 /\ aFirst = 0 /\ aCalls = 0
    /\ input \in LoanInputs /\ pc = "call" /\ totalPayments = 0 /\ monthlyPayment = 0
    /\ paymentFrequencyDays = 0 /\ schedule = << >> /\ currentBalance = 0
    /\ cumulativeInterest = 0 /\ previousPaymentDate = 0 /\ rateTermInterest = 0
    /\ rateTermPrincipal = 0 /\ i = 0 /\ summary = << >>
    /\ pArgs = << >> /\ pPc = "idle" /\ pResult = 0
    /\ runs = 1 /\ firstResult = << >> /\ timeZone \in TimeZones
    /\ formValues = << >> /\ isValid = FALSE /\ uiPc = "off" /\ isCalculating = FALSE
    /\ uiSchedule = << >> /\ uiSummary = << >> /\ currentPage = 1
    /\ tableView = "rate-term" /\ filteredSchedule = << >>

Next ==
    \/ EngineSetup /\ UNCHANGED << hvars, avars, pvars, tvars, zvars, uvars >>
    \/ LoopIteration /\ UNCHANGED << hvars, avars, pvars, tvars, zvars, uvars >>
    \/ LoopExit /\ UNCHANGED << hvars, avars, pvars, tvars, zvars, uvars >>
    \/ BuildSummary /\ UNCHANGED << hvars, avars, pvars, tvars, zvars, uvars >>

Spec == Init /\ [][Next]_vars

(***************************************************************************)
(* The engine called twice: once with paymentType "end", then again with   *)
(* the same input but paymentType "beginning" and another rateTermMonths.  *)
(***************************************************************************)
OtherRateTermMonths == { 12 }

\* the caller keeps what the first call returned and calls again
CallAgainWithOtherPaymentType ==
    /\ pc = "done"
    /\ runs = 1
    /\ firstResult' = [ schedule |-> schedule, summary |-> summary ]
    /\ \E months \in OtherRateTermMonths :
           input' = [ input EXCEPT !.paymentType = "beginning",
                                   !.rateTermMonths = months ]
    /\ runs' = 2
    /\ pc' = "call"
    /\ schedule' = << >>
    /\ summary' = << >>
    /\ UNCHANGED << totalPayments, monthlyPayment, paymentFrequencyDays,
                    currentBalance, cumulativeInterest, previousPaymentDate,
                    rateTermInterest, rateTermPrincipal, i >>

InitTwice ==
    /\ hYear = 0 /\ hPc = "idle" /\ hEaster = 0 /\ hHolidays = << >>
    /\ aInput = 0 /\ aDate = 0 /\ aNextDay = 0 /\ aPc = "idle"
    /\ aResult = 0 /\ aFirst = 0 /\ aCalls = 0
    /\ input \in { in \in LoanInputs : in.paymentType = "end" }
    /\ pc = "call" /\ totalPayments = 0 /\ monthlyPayment = 0
    /\ paymentFrequencyDays = 0 /\ schedule = << >> /\ currentBalance = 0
    /\ cumulativeInterest = 0 /\ previousPaymentDate = 0 /\ rateTermInterest = 0
    /\ rateTermPrincipal = 0 /\ i = 0 /\ summary = << >>
    /\ pArgs = << >> /\ pPc = "idle" /\ pResult = 0
    /\ runs = 1 /\ firstResult = << >> /\ timeZone \in TimeZones
    /\ formValues = << >> /\ isValid = FALSE /\ uiPc = "off" /\ isCalculating = FALSE
    /\ uiSchedule = << >> /\ uiSummary = << >> /\ currentPage = 1
    /\ tableView = "rate-term" /\ filteredSchedule = << >>

TwiceNext ==
    \/ EngineSetup /\ UNCHANGED << hvars, avars, pvars, tvars, zvars, uvars >>
    \/ LoopIteration /\ UNCHANGED << hvars, avars, pvars, tvars, zvars, uvars >>
    \/ LoopExit /\ UNCHANGED << hvars, avars, pvars, tvars, zvars, uvars >>
    \/ BuildSummary /\ UNCHANGED << hvars, avars, pvars, tvars, zvars, uvars >>
    \/ CallAgainWithOtherPaymentType /\ UNCHANGED << hvars, avars, pvars, zvars, uvars >>

SpecTwice == InitTwice /\ [][TwiceNext]_vars

(***************************************************************************)
(* The LoanCalculator component: the form, the auto-calculate watcher, the *)
(* submit handler, the table view and the pagination.  The runtime is      *)
(* single-threaded: an event is handled once the handler before it has     *)
(* returned, and calculateAmortizationSchedule runs to its end inside      *)
(* onCalculate.  The form library validates with an asynchronous resolver: *)
(* after a field changed it first notifies the watchers, then runs the     *)
(* resolver and stores the outcome in formState.isValid.                   *)
(***************************************************************************)
itemsPerPage == 12

\* useForm's defaultValues, with a loan and a term the model can enumerate
DefaultValues ==
    [ loanAmount |-> 100000,
      annualInterestRate |-> 525,
      rateTermMonths |-> 60,
      amortizationMonths |-> 24,
      paymentsPerYear |-> 12,
      startDate |-> NewDate(2024, 0, 15),
      firstPaymentDate |-> NewDate(2024, 1, 15),
      rateTermMaturityDate |-> NewDate(2024, 6, 15),
      compoundingFrequency |-> 2,
      paymentType |-> "end" ]

\* what the user can bring the form to: the defaults, a shorter amortization,
\* an amortization of 0 months, a rate term that matures on the start date,
\* and a cleared first payment date
FormValues ==
    << DefaultValues,
       [ DefaultValues EXCEPT !.amortizationMonths = 12 ],
       [ DefaultValues EXCEPT !.amortizationMonths = 0 ],
       [ DefaultValues EXCEPT !.rateTermMaturityDate = DefaultValues.startDate ],
       [ DefaultValues EXCEPT !.firstPaymentDate = "" ] >>

\* Object.values(values).every(v => v !== undefined && v !== '')
AllFilled(values) ==
    \A field \in DOMAIN values : ToString(values[field]) # ToString("")

\* loanInputSchema accepts the values
SchemaAccepts(values) == AllFilled(values) /\ ValidLoanInput(values)

\* the years new Date().getFullYear() can return while the page is open
CurrentYears == { 2024, 2025 }

\* the body of the filteredSchedule memo
FilterSchedule(rows, view, rateTermMaturity, currentYear) ==
    IF rows = << >> THEN << >>
    ELSE IF view = "rate-term"
           THEN SelectSeq(rows, LAMBDA payment : payment.paymentDate <= rateTermMaturity)
    ELSE IF view = "year"
           THEN SelectSeq(rows, LAMBDA payment :
                                    getFullYear(payment.paymentDate) = currentYear)
    ELSE rows

\* Math.ceil(filteredSchedule.length / itemsPerPage)
totalPages == (Len(filteredSchedule) + itemsPerPage - 1) \div itemsPerPage

\* onCalculate up to the call of calculateAmortizationSchedule(data)
OnCalculateCall(data, caller) ==
    /\ isCalculating' = TRUE
    /\ input' = data
    /\ pc' = "call"
    /\ uiPc' = caller
    /\ UNCHANGED << totalPayments, monthlyPayment, paymentFrequencyDays, schedule,
                    currentBalance, cumulativeInterest, previousPaymentDate,
                    rateTermInterest, rateTermPrincipal, i, summary >>

\* the user changes one field; the form notifies the watcher, which calls
\* onCalculate if formState.isValid and no value is empty
ChangeField ==
    /\ uiPc = "idle"
    /\ \E n \in 1..Len(FormValues) :
       LET values == FormValues[n] IN
          /\ Cardinality({ field \in DOMAIN values :
                               ToString(values[field]) # ToString(formValues[field]) }) = 1
          /\ formValues' = values
          /\ IF isValid /\ AllFilled(values)
               THEN OnCalculateCall(values, "watch")
               ELSE /\ uiPc' = "validate"
                    /\ UNCHANGED << evars, isCalculating >>
    /\ UNCHANGED << isValid, uiSchedule, uiSummary, currentPage, tableView,
                    filteredSchedule >>

\* the resolver has run on the changed values
ValidateForm ==
    /\ uiPc = "validate"
    /\ isValid' = SchemaAccepts(formValues)
    /\ uiPc' = "idle"
    /\ UNCHANGED << evars, formValues, isCalculating, uiSchedule, uiSummary,
                    currentPage, tableView, filteredSchedule >>

\* form.handleSubmit(onCalculate): the resolver runs, onCalculate is called
\* if it found no error
Submit ==
    /\ uiPc = "idle"
    /\ isValid' = SchemaAccepts(formValues)
    /\ IF SchemaAccepts(formValues)
         THEN OnCalculateCall(formValues, "submit")
         ELSE UNCHANGED << evars, uiPc, isCalculating >>
    /\ UNCHANGED << formValues, uiSchedule, uiSummary, currentPage, tableView,
                    filteredSchedule >>

\* the rest of onCalculate after calculateAmortizationSchedule returned, and
\* the render that follows
OnCalculateReturn ==
    /\ uiPc \in { "watch", "submit" }
    /\ pc = "done"
    /\ uiSchedule' = schedule
    /\ uiSummary' = summary
    /\ currentPage' = 1
    /\ isCalculating' = FALSE
    /\ \E currentYear \in CurrentYears :
          filteredSchedule' = FilterSchedule(schedule, tableView,
                                             formValues.rateTermMaturityDate, currentYear)
    /\ uiPc' = IF uiPc = "watch" THEN "validate" ELSE "idle"
    /\ pc' = "idle"
    /\ UNCHANGED << input, totalPayments, monthlyPayment, paymentFrequencyDays,
                    schedule, currentBalance, cumulativeInterest, previousPaymentDate,
                    rateTermInterest, rateTermPrincipal, i, summary >>
    /\ UNCHANGED << formValues, isValid, tableView >>

\* the Select of the table card: setTableView(value), and the memo recomputed
SetTableView ==
    /\ uiPc = "idle"
    /\ uiSchedule # << >>
    /\ \E value \in { "all", "rate-term", "year" } \ { tableView } :
          /\ tableView' = value
          /\ \E currentYear \in CurrentYears :
                filteredSchedule' = FilterSchedule(uiSchedule, value,
                                        formValues.rateTermMaturityDate, currentYear)
    /\ UNCHANGED << evars, formValues, isValid, uiPc, isCalculating, uiSchedule,
                    uiSummary, currentPage >>

\* the Next button, rendered when totalPages > 1, disabled on the last page
NextPage ==
    /\ uiPc = "idle"
    /\ uiSchedule # << >>
    /\ totalPages > 1
    /\ currentPage # totalPages
    /\ currentPage' = currentPage + 1
    /\ UNCHANGED << evars, formValues, isValid, uiPc, isCalculating, uiSchedule,
                    uiSummary, tableView, filteredSchedule >>

\* the Previous button, rendered when totalPages > 1, disabled on page 1
PreviousPage ==
    /\ uiPc = "idle"
    /\ uiSchedule # << >>
    /\ totalPages > 1
    /\ currentPage # 1
    /\ currentPage' = currentPage - 1
    /\ UNCHANGED << evars, formValues, isValid, uiPc, isCalculating, uiSchedule,
                    uiSummary, tableView, filteredSchedule >>

UINext ==
    \/ ChangeField /\ UNCHANGED << hvars, avars, pvars, tvars, zvars >>
    \/ ValidateForm /\ UNCHANGED << hvars, avars, pvars, tvars, zvars >>
    \/ Submit /\ UNCHANGED << hvars, avars, pvars, tvars, zvars >>
    \/ EngineSetup /\ UNCHANGED << hvars, avars, pvars, tvars, zvars, uvars >>
    \/ LoopIteration /\ UNCHANGED << hvars, avars, pvars, tvars, zvars, uvars >>
    \/ LoopExit /\ UNCHANGED << hvars, avars, pvars, tvars, zvars, uvars >>
    \/ BuildSummary /\ UNCHANGED << hvars, avars, pvars, tvars, zvars, uvars >>
    \/ OnCalculateReturn /\ UNCHANGED << hvars, avars, pvars, tvars, zvars >>
    \/ SetTableView /\ UNCHANGED << hvars, avars, pvars, tvars, zvars >>
    \/ NextPage /\ UNCHANGED << hvars, avars, pvars, tvars, zvars >>
    \/ PreviousPage /\ UNCHANGED << hvars, avars, pvars, tvars, zvars >>

\* the component mounted: the useState and useForm defaults, nothing validated
InitUI ==
    /\ hYear = 0 /\ hPc = "idle" /\ hEaster = 0 /\ hHolidays = << >>
    /\ aInput = 0 /\ aDate = 0 /\ aNextDay = 0 /\ aPc = "idle"
    /\ aResult = 0 /\ aFirst = 0 /\ aCalls = 0
    /\ input = << >> /\ pc = "idle" /\ totalPayments = 0 /\ monthlyPayment = 0
    /\ paymentFrequencyDays = 0 /\ schedule = << >> /\ currentBalance = 0
    /\ cumulativeInterest = 0 /\ previousPaymentDate = 0 /\ rateTermInterest = 0
    /\ rateTermPrincipal = 0 /\ i = 0 /\ summary = << >>
    /\ pArgs = << >> /\ pPc = "idle" /\ pResult = 0
    /\ runs = 0 /\ firstResult = << >> /\ timeZone = "UTC"
    /\ formValues = DefaultValues /\ isValid = FALSE /\ uiPc = "idle"
    /\ isCalculating = FALSE
    /\ uiSchedule = << >> /\ uiSummary = << >> /\ currentPage = 1
    /\ tableView = "rate-term" /\ filteredSchedule = << >>

SpecUI == InitUI /\ [][UINext]_vars

(***************************************************************************)
(* Calendar vocabulary of the claims.                                      *)
(***************************************************************************)
Sunday == 0
Monday == 1
Friday == 5
Saturday == 6

\* the day number of a civil date, month 1-based
Ymd(y, m, d) == NewDate(y, m - 1, d)

\* date is a Monday of month m (1-based) of year y whose day of month is in lo..hi
IsMondayIn(date, y, m, lo, hi) ==
    /\ getDay(date) = Monday
    /\ getFullYear(date) = y
    /\ getMonth(date) = m - 1
    /\ getDate(date) \in lo..hi

\* Gregorian Easter Sunday by the golden number and the epact (Knuth, TAOCP 1.3.2)
GregorianEaster(y) ==
    LET G  == (y % 19) + 1
        C  == (y \div 100) + 1
        X  == (3 * C) \div 4 - 12
        Z  == (8 * C + 5) \div 25 - 5
        D  == (5 * y) \div 4 - X - 10
        E0 == (11 * G + 20 + Z - X) % 30
        E  == IF (E0 = 25 /\ G > 11) \/ E0 = 24 THEN E0 + 1 ELSE E0
        N0 == 44 - E
        N1 == IF N0 < 21 THEN N0 + 30 ELSE N0
        N  == N1 + 7 - ((D + N1) % 7)
    IN  Ymd(y, 3, N)

\* a business day, stated on the holiday list of the date's own year
HolidaySet(y) == { getCanadianHolidays(y)[n] : n \in 1..12 }
BusinessDay(date) ==
    /\ getDay(date) # Saturday
    /\ getDay(date) # Sunday
    /\ date \notin HolidaySet(getFullYear(date))

(***************************************************************************)
(* C6: adjustPaymentDate(d) returns the least business day >= d (d itself  *)
(* when d is a business day, else the first business day after d), and     *)
(* applying it to its own result returns that result again.                *)
(***************************************************************************)
C6_AdjustIsLeastBusinessDay ==
    aPc = "ret" =>
        /\ aResult >= aDate
        /\ BusinessDay(aResult)
        /\ \A k \in aDate..(aResult - 1) : ~BusinessDay(k)
        /\ (BusinessDay(aDate) => aResult = aDate)
        /\ aResult = adjustPaymentDate(aDate)
        /\ (aCalls = 1 => aDate = aInput)
        /\ (aCalls = 2 => aDate = aFirst /\ aResult = aFirst)

\* a Good Friday: rolled over Friday, Saturday, Sunday and Easter Monday, then reapplied
C6_Witness ==
    /\ aPc = "ret"
    /\ aCalls = 2
    /\ aInput \in HolidaySet(getFullYear(aInput))
    /\ aResult = aInput + 4

(***************************************************************************)
(* C7: Family Day is the 3rd Monday of February (a Monday, day 15..21) and *)
(* Thanksgiving the 2nd Monday of October (a Monday, day 8..14), whatever  *)
(* weekday the 1st of the month is.                                        *)
(***************************************************************************)
C7_FamilyDayAndThanksgiving ==
    hPc = "done" =>
        /\ IsMondayIn(hHolidays[2], hYear, 2, 15, 21)
        /\ IsMondayIn(hHolidays[9], hYear, 10, 8, 14)

(***************************************************************************)
(* C8: the Civic Holiday is the 1st Monday of August and Labour Day the    *)
(* 1st Monday of September (a Monday, day 1..7).                           *)
(***************************************************************************)
C8_CivicHolidayAndLabourDay ==
    hPc = "done" =>
        /\ IsMondayIn(hHolidays[7], hYear, 8, 1, 7)
        /\ IsMondayIn(hHolidays[8], hYear, 9, 1, 7)

(***************************************************************************)
(* C9: for every year >= 1583 calculateEaster(year) is the Gregorian       *)
(* Easter Sunday, a Sunday from March 22 to April 25 (2024-03-31 and       *)
(* 2025-04-20 among them); Good Friday is the Friday 2 days before it and  *)
(* Easter Monday the Monday 1 day after it.                                *)
(***************************************************************************)
C9_EasterGoodFridayEasterMonday ==
    (hPc = "done" /\ hYear >= 1583) =>
        /\ hEaster = GregorianEaster(hYear)
        /\ getDay(hEaster) = Sunday
        /\ hEaster \in Ymd(hYear, 3, 22) .. Ymd(hYear, 4, 25)
        /\ (hYear = 2024 => hEaster = Ymd(2024, 3, 31))
        /\ (hYear = 2025 => hEaster = Ymd(2025, 4, 20))
        /\ hHolidays[3] = hEaster - 2
        /\ getDay(hHolidays[3]) = Friday
        /\ hHolidays[4] = hEaster + 1
        /\ getDay(hHolidays[4]) = Monday

C9_Witness ==
    /\ hPc = "done"
    /\ hYear = 2025
    /\ Civil(hEaster) = << 2025, 3, 20 >>
    /\ Civil(hHolidays[3]) = << 2025, 3, 18 >>
    /\ Civil(hHolidays[4]) = << 2025, 3, 21 >>

(***************************************************************************)
(* C10: Canada Day is July 2 iff July 1 is a Sunday, else July 1;          *)
(* Christmas is Dec 26 iff Dec 25 is a Sunday, else Dec 25; Boxing Day is  *)
(* Dec 27 iff Dec 26 is a Sunday, Dec 28 iff Dec 26 is a Saturday, else    *)
(* Dec 26; New Year's Day and Remembrance Day are never shifted.           *)
(***************************************************************************)
C10_ObservedDateShifting ==
    hPc = "done" =>
        LET jul1  == Ymd(hYear, 7, 1)
            dec25 == Ymd(hYear, 12, 25)
            dec26 == Ymd(hYear, 12, 26)
        IN  /\ hHolidays[6] = (IF getDay(jul1) = Sunday THEN jul1 + 1 ELSE jul1)
            /\ hHolidays[11] = (IF getDay(dec25) = Sunday THEN dec25 + 1 ELSE dec25)
            /\ hHolidays[12] = (IF getDay(dec26) = Sunday THEN dec26 + 1
                                ELSE IF getDay(dec26) = Saturday THEN dec26 + 2
                                ELSE dec26)
            /\ hHolidays[1] = Ymd(hYear, 1, 1)
            /\ hHolidays[10] = Ymd(hYear, 11, 11)

\* 2029: July 1 is a Sunday, Canada Day is observed on July 2
C10_Witness ==
    /\ hPc = "done"
    /\ hYear = 2029
    /\ getDay(Ymd(hYear, 7, 1)) = Sunday
    /\ Civil(hHolidays[6]) = << 2029, 6, 2 >>

Rows == 1..Len(schedule)

LastRow == schedule[Len(schedule)]

\* the sum of f[k] over k in 1..n
RECURSIVE SumUpTo(_, _)
SumUpTo(f, n) == IF n = 0 THEN 0 ELSE f[n] + SumUpTo(f, n - 1)

InterestColumn == [ k \in Rows |-> schedule[k].interestPayment ]
ScheduledPaymentColumn == [ k \in Rows |-> schedule[k].scheduledPayment ]

ConfiguredTotal == (input.amortizationMonths * input.paymentsPerYear) \div 12

(***************************************************************************)
(* C1: for every validated LoanInput every row has endingBalance <=        *)
(* beginningBalance, that is principalPayment >= 0: the balance never      *)
(* grows from one payment to the next.                                     *)
(***************************************************************************)
C1_BalanceNeverGrows ==
    (pc # "idle" /\ ValidLoanInput(input)) =>
        \A k \in Rows :
            /\ schedule[k].endingBalance <= schedule[k].beginningBalance
            /\ schedule[k].principalPayment >= 0

(***************************************************************************)
(* C2: for every validated LoanInput the returned schedule ends with the   *)
(* loan paid off: its last row has endingBalance 0, or the loop stopped    *)
(* early with a balance <= 0.01.                                           *)
(***************************************************************************)
C2_ScheduleEndsPaidOff ==
    (pc = "done" /\ ValidLoanInput(input)) =>
        /\ Len(schedule) >= 1
        /\ \/ LastRow.endingBalance = 0
           \/ (Len(schedule) < ConfiguredTotal /\ LastRow.endingBalance <= PaidOffThreshold)

(***************************************************************************)
(* C3: row 1 has beginningBalance = loanAmount and every later row begins  *)
(* with the endingBalance of the row before it.                            *)
(***************************************************************************)
C3_BalancesChain ==
    pc # "idle" =>
        \A k \in Rows :
            IF k = 1
              THEN schedule[k].beginningBalance = input.loanAmount
              ELSE schedule[k].beginningBalance = schedule[k - 1].endingBalance

\* three rows, the balance still open after the second
C3_Witness ==
    /\ pc = "done"
    /\ Len(schedule) >= 3
    /\ schedule[2].endingBalance > 0
    /\ schedule[2].endingBalance # input.loanAmount
    /\ schedule[3].beginningBalance = schedule[2].endingBalance

(***************************************************************************)
(* C4: cumulativeInterest of row k is the sum of interestPayment over rows *)
(* 1..k, and summary.totalInterest is the cumulativeInterest of the last   *)
(* row.                                                                    *)
(***************************************************************************)
C4_CumulativeInterest ==
    /\ pc # "idle" =>
           \A k \in Rows : schedule[k].cumulativeInterest = SumUpTo(InterestColumn, k)
    /\ pc = "done" =>
           /\ summary.totalInterest = SumUpTo(InterestColumn, Len(schedule))
           /\ Len(schedule) >= 1 => summary.totalInterest = LastRow.cumulativeInterest

\* a returned schedule of three rows or more, each with interest
C4_Witness ==
    /\ pc = "done"
    /\ Len(schedule) >= 3
    /\ \A k \in 1..3 : schedule[k].interestPayment > 0
    /\ summary.totalInterest = LastRow.cumulativeInterest
    /\ LastRow.cumulativeInterest > schedule[1].interestPayment

(***************************************************************************)
(* C5: summary.totalPayments is the sum of scheduledPayment over all rows, *)
(* and summary.numberOfPayments is schedule.length, at most the configured *)
(* total floor(amortizationMonths / 12 * paymentsPerYear).                 *)
(***************************************************************************)
C5_SummaryMatchesRows ==
    pc = "done" =>
        /\ summary.totalPayments = SumUpTo(ScheduledPaymentColumn, Len(schedule))
        /\ summary.numberOfPayments = Len(schedule)
        /\ summary.numberOfPayments <= ConfiguredTotal

\* an early payoff: fewer rows than the configured total
C5_Witness ==
    /\ pc = "done"
    /\ Len(schedule) >= 2
    /\ Len(schedule) < ConfiguredTotal
    /\ summary.numberOfPayments = Len(schedule)
    /\ summary.totalPayments > schedule[1].scheduledPayment

(***************************************************************************)
(* C12: date adjustments change the split, not the amount: every row that  *)
(* is not a forced payoff row (its index is not the final scheduled index  *)
(* and its principal was not capped at the balance) has scheduledPayment   *)
(* equal to the fixed payment, which is summary.monthlyPayment.            *)
(***************************************************************************)
ForcedPayoffRow(k) ==
    \/ schedule[k].paymentNumber = ConfiguredTotal
    \/ monthlyPayment - schedule[k].interestPayment > schedule[k].beginningBalance

C13_RowArithmetic ==
    pc # "idle" =>
        \A k \in Rows :
            LET row == schedule[k]
                rest == row.beginningBalance - row.principalPayment
            IN  /\ row.scheduledPayment = row.principalPayment + row.interestPayment
                /\ row.endingBalance = (IF rest > 0 THEN rest ELSE 0)
                /\ row.endingBalance >= 0

\* an ordinary first row and a payoff last row whose payment is not the fixed one
C13_Witness ==
    /\ pc = "done"
    /\ Len(schedule) >= 2
    /\ schedule[1].endingBalance > 0
    /\ schedule[1].scheduledPayment = monthlyPayment
    /\ LastRow.principalPayment = LastRow.beginningBalance
    /\ LastRow.endingBalance = 0
    /\ LastRow.scheduledPayment # monthlyPayment
    /\ LastRow.scheduledPayment = LastRow.principalPayment + LastRow.interestPayment

(***************************************************************************)
(* C14: the rows are ordered: row k has paymentNumber k (1-based, without  *)
(* gaps, strictly increasing) and paymentDate never decreases from a row   *)
(* to the next, for every validated input, paymentsPerYear = 365 included. *)
(***************************************************************************)
C14_RowsOrdered ==
    (pc # "idle" /\ ValidLoanInput(input)) =>
        /\ \A k \in Rows : schedule[k].paymentNumber = k
        /\ \A k \in Rows :
               k > 1 =>
                   /\ schedule[k].paymentNumber > schedule[k - 1].paymentNumber
                   /\ schedule[k].paymentDate >= schedule[k - 1].paymentDate

\* daily payments: the rows of a Saturday, a Sunday and the Monday after
\* carry the same paymentDate
C14_Witness ==
    /\ pc = "done"
    /\ input.paymentsPerYear = 365
    /\ \E k \in Rows :
           /\ k + 2 \in Rows
           /\ schedule[k].paymentDate = schedule[k + 1].paymentDate
           /\ schedule[k + 1].paymentDate = schedule[k + 2].paymentDate
           /\ schedule[k + 2].paymentNumber = schedule[k].paymentNumber + 2

(***************************************************************************)
(* C15: the loop stops as soon as the balance is paid off: no row is       *)
(* pushed after a row whose endingBalance <= 0.01, so every row but the    *)
(* last has endingBalance > 0.01, also when fewer than totalPayments rows  *)
(* were produced.                                                          *)
(***************************************************************************)
C15_StopsWhenPaidOff ==
    /\ [](pc # "idle" =>
             \A k \in Rows :
                 k < Len(schedule) => schedule[k].endingBalance > PaidOffThreshold)
    /\ [][Len(schedule') > Len(schedule) =>
             (schedule = << >> \/ LastRow.endingBalance > PaidOffThreshold)]_vars

\* paid off before the last scheduled index: the function returned with
\* fewer rows than totalPayments
C15_Witness ==
    /\ pc = "done"
    /\ Len(schedule) >= 2
    /\ Len(schedule) < totalPayments
    /\ LastRow.endingBalance <= PaidOffThreshold
    /\ schedule[Len(schedule) - 1].endingBalance > PaidOffThreshold

(***************************************************************************)
(* C16: adjustPaymentDate terminates for every input date: whatever date   *)
(* it is entered with, the day-by-day advance of getNextBusinessDay        *)
(* reaches a business day and the call returns it; the loop carries no     *)
(* limit on the number of days it advances.                                *)
(***************************************************************************)
C16_AdjustTerminates ==
    (aPc = "call") ~> (aPc = "ret" /\ BusinessDay(aResult) /\ aResult >= aDate)

\* the first call returned after advancing over four days or more
C16_Witness ==
    /\ aPc = "ret"
    /\ aCalls = 1
    /\ ~BusinessDay(aInput)
    /\ aResult >= aInput + 4
    /\ aNextDay = aResult

(***************************************************************************)
(* C17: when the effective per-period rate is 0 (the annual rate is 0),    *)
(* calculatePaymentAmount returns principal / totalPayments and does not   *)
(* evaluate the annuity formula, whose denominator (1 + 0)^n - 1 is 0.     *)
(* With totalPayments = 0 the quotient principal / 0 is Infinity.          *)
(***************************************************************************)
FiniteAmount(x) == ToString(x) \notin { ToString(Infinity), ToString("NaN") }

C17_ZeroRatePayment ==
    (pPc = "done" /\ pArgs.annualRate = 0) =>
        IF pArgs.totalPayments = 0
          THEN ~FiniteAmount(pResult) /\ pResult = Infinity
          ELSE /\ FiniteAmount(pResult)
               /\ pResult * pArgs.totalPayments
                      + (pArgs.principal % pArgs.totalPayments) = pArgs.principal

\* $500,000 at 0 % over 24 monthly payments: 20,833.33 each
C17_Witness ==
    /\ pPc = "done"
    /\ pArgs.annualRate = 0
    /\ pArgs.principal = 50000000
    /\ pArgs.totalPayments = 24
    /\ pResult = 2083333

(***************************************************************************)
(* C18: with r = (1 + annualRate / 100 / compoundingFrequency)             *)
(* ^ (compoundingFrequency / paymentsPerYear) - 1 not zero, the payment is *)
(* principal * r * (1 + r)^n / ((1 + r)^n - 1), and the engine asks for it *)
(* with n = floor(amortizationMonths / 12 * paymentsPerYear).  The formula *)
(* is the level payment of an annuity: n such payments at the rate r per   *)
(* period bring the principal to zero, up to the rounding of the cents and *)
(* of the rate.                                                            *)
(***************************************************************************)
PeriodRate(annualRate, perYear, compounding) ==
    RatePow(RateScale + ((RateScale \div 10000) * annualRate) \div compounding,
            compounding, perYear) - RateScale

AnnuityPayment(principal, r, n) ==
    LET growth == RatePowInt(RateScale + r, n)
    IN  MulDiv(principal, MulDiv(r, growth, growth - RateScale), RateScale)

\* the balance left of principal after n payments of payment at the rate r
RECURSIVE BalanceAfter(_, _, _, _)
BalanceAfter(principal, r, payment, n) ==
    IF n = 0 THEN principal
    ELSE LET before == BalanceAfter(principal, r, payment, n - 1)
         IN  before + MulDiv(before, r, RateScale) - payment

Abs(x) == IF x < 0 THEN -x ELSE x

\* what the rounding can leave: a cent or two per payment, and n units in the
\* last place of the fixed-point (1 + r)^n, n multiplications rounded down
RoundingSlack(principal, r, n) ==
    4 * n + MulDiv(principal, n, RatePowInt(RateScale + r, n) - RateScale)

\* stated where the engine has just obtained the payment (it never changes it)
C18_AnnuityPayment ==
    (pc = "loop" /\ schedule = << >>) =>
        LET n == ConfiguredTotal
            r == PeriodRate(input.annualInterestRate, input.paymentsPerYear,
                            input.compoundingFrequency)
        IN  /\ totalPayments = n
            /\ r # 0
            /\ IF n = 0
                 THEN ~FiniteAmount(monthlyPayment)
                 ELSE /\ FiniteAmount(monthlyPayment)
                      /\ monthlyPayment = AnnuityPayment(input.loanAmount, r, n)
                      /\ Abs(BalanceAfter(input.loanAmount, r, monthlyPayment, n))
                             <= RoundingSlack(input.loanAmount, r, n)

\* semi-annual compounding, bi-weekly payments: the rate conversion takes a root
C18_Witness ==
    /\ pc = "loop"
    /\ schedule = << >>
    /\ input.compoundingFrequency = 2
    /\ input.paymentsPerYear = 26
    /\ totalPayments = 52
    /\ FiniteAmount(monthlyPayment)
    /\ monthlyPayment > input.loanAmount \div 52
    /\ monthlyPayment = AnnuityPayment(input.loanAmount,
                             PeriodRate(input.annualInterestRate, 26, 2), 52)

(***************************************************************************)
(* C19: the output does not depend on paymentType nor on rateTermMonths:   *)
(* two inputs that differ only there give the same schedule and the same   *)
(* summary; "beginning" is computed like "end".                            *)
(***************************************************************************)
C19_PaymentTypeIgnored ==
    (pc = "done" /\ runs = 2) =>
        /\ schedule = firstResult.schedule
        /\ summary = firstResult.summary

\* a second call with paymentType "beginning" returned rows with interest
C19_Witness ==
    /\ pc = "done"
    /\ runs = 2
    /\ input.paymentType = "beginning"
    /\ input.rateTermMonths = 12
    /\ Len(schedule) >= 2
    /\ schedule[1].interestPayment > 0
    /\ Len(firstResult.schedule) = Len(schedule)

(***************************************************************************)
(* C20: the engine never signals an error: when totalPayments =            *)
(* floor(amortizationMonths / 12 * paymentsPerYear) <= 0 it does not throw *)
(* but returns an empty schedule and a summary with numberOfPayments = 0,  *)
(* totalInterest = 0 and totalPayments = 0.                                *)
(***************************************************************************)
C20_EmptyScheduleWhenNoPayments ==
    (pc # "idle" /\ ConfiguredTotal <= 0) =>
        /\ pc \in { "call", "loop", "summary", "done" }
        /\ schedule = << >>
        /\ pc \in { "summary", "done" } => cumulativeInterest = 0
        /\ pc = "done" =>
               /\ summary.numberOfPayments = 0
               /\ summary.totalInterest = 0
               /\ summary.totalPayments = 0

\* one month of amortization with one payment a year: floor(1 / 12) = 0, and
\* the function has returned
C20_Witness ==
    /\ pc = "done"
    /\ input.amortizationMonths = 1
    /\ input.paymentsPerYear = 1
    /\ totalPayments = 0
    /\ schedule = << >>
    /\ summary.numberOfPayments = 0
    /\ ~FiniteAmount(summary.monthlyPayment)

(***************************************************************************)
(* C21: payoff rule: on the final scheduled index, or whenever the fixed   *)
(* payment less the interest would exceed the current balance, the         *)
(* principalPayment is exactly the current balance and the row ends at 0;  *)
(* in every other row principalPayment = fixed payment - interestPayment.  *)
(***************************************************************************)
C21_PayoffRule ==
    pc \notin { "idle", "call" } =>
        \A k \in Rows :
            LET row == schedule[k]
            IN  IF k = ConfiguredTotal
                   \/ monthlyPayment - row.interestPayment > row.beginningBalance
                  THEN /\ row.principalPayment = row.beginningBalance
                       /\ row.endingBalance = 0
                  ELSE row.principalPayment = monthlyPayment - row.interestPayment

\* a last row forced by its index alone (the fixed payment would not have
\* covered the balance), after an ordinary first row
C21_Witness ==
    /\ pc = "done"
    /\ Len(schedule) >= 2
    /\ Len(schedule) = ConfiguredTotal
    /\ monthlyPayment - LastRow.interestPayment < LastRow.beginningBalance
    /\ LastRow.principalPayment = LastRow.beginningBalance
    /\ LastRow.endingBalance = 0
    /\ schedule[1].principalPayment = monthlyPayment - schedule[1].interestPayment
    /\ schedule[1].principalPayment < schedule[1].beginningBalance


\* C22: every row's daysBetweenPayments is the number of calendar days from
\* the previous row's paymentDate (from startDate for row 1) to its own
\* paymentDate, and its interestPayment is beginningBalance *
\* (annualInterestRate / 100 / 365.25) * daysBetweenPayments
C22_DaysAndInterest ==
    pc \notin { "idle", "call" } =>
        \A k \in Rows :
            LET row == schedule[k]
                from == IF k = 1 THEN input.startDate ELSE schedule[k - 1].paymentDate
            IN  /\ row.daysBetweenPayments = row.paymentDate - from
                /\ row.interestPayment
                       = MulDiv(row.beginningBalance,
                                input.annualInterestRate * row.daysBetweenPayments,
                                3652500)


\* round(365.25 / n): the whole number within half a day of 365.25 / n
RoundedPeriod(n) ==
    CHOOSE q \in 0..366 :
        /\ 100 * n * (2 * q - 1) <= 2 * 36525
        /\ 2 * 36525 < 100 * n * (2 * q + 1)

\* C23: every row of the returned schedule has paymentDate =
\* adjustPaymentDate(firstPaymentDate + (paymentNumber - 1) *
\* round(365.25 / paymentsPerYear) days): the scheduled
\* date is counted from firstPaymentDate, never from the previous adjusted
\* date, so a roll-forward does not shift the later payments
C23_DatesFromFirstPayment ==
    pc = "done" =>
        \E period \in { RoundedPeriod(input.paymentsPerYear) } :
            \A k \in Rows :
                schedule[k].paymentDate
                    = adjustPaymentDate(input.firstPaymentDate + (k - 1) * period)

\* a row rolled forward to the next business day and the next row on its own
\* unadjusted date, less than a period later
C23_Witness ==
    /\ pc = "done"
    /\ \E k \in Rows :
           /\ k + 1 \in Rows
           /\ schedule[k].paymentDate
                  > input.firstPaymentDate + (k - 1) * paymentFrequencyDays
           /\ schedule[k + 1].paymentDate
                  = input.firstPaymentDate + k * paymentFrequencyDays
           /\ schedule[k + 1].paymentDate - schedule[k].paymentDate
                  < paymentFrequencyDays


\* the rows dated on or before the day the rate term matures
RateTermRows == { k \in Rows : schedule[k].paymentDate <= input.rateTermMaturityDate }

RECURSIVE SumOver(_, _)
\* the sum of f[k] over the k of a finite set
SumOver(f, set) ==
    IF set = { } THEN 0
    ELSE LET k == CHOOSE x \in set : TRUE IN f[k] + SumOver(f, set \ { k })

\* C24: summary.rateTermInterest and summary.rateTermPrincipal are the sums
\* of interestPayment and principalPayment over exactly the rows with
\* paymentDate <= rateTermMaturityDate: a row dated on the maturity date is
\* included, later rows are excluded
C24_RateTermTotals ==
    pc = "done" =>
        /\ summary.rateTermInterest = SumOver(InterestColumn, RateTermRows)
        /\ summary.rateTermPrincipal
               = SumOver([ k \in Rows |-> schedule[k].principalPayment ], RateTermRows)


PrincipalColumn == [ k \in Rows |-> schedule[k].principalPayment ]

C27_RollForwardAtMostFour ==
    aPc = "ret" => /\ aResult - aDate <= 4
                   /\ aResult - aInput <= 4

\* a roll-forward of 4 days that is not the Easter one: Saturday to Wednesday
\* over a Christmas Day and a Boxing Day on Monday and Tuesday
C27_Witness ==
    /\ aPc = "ret"
    /\ aCalls = 1
    /\ getDay(aInput) = Saturday
    /\ getMonth(aInput) = 11
    /\ aResult = aInput + 4


\* C29: the twelve dates getCanadianHolidays(year) returns are pairwise
\* distinct calendar dates that all lie in that year; in particular
\* Christmas Day and Boxing Day are observed on two different dates
C29_HolidaysDistinctInYear ==
    hPc = "done" =>
        /\ Len(hHolidays) = 12
        /\ \A m, n \in 1..Len(hHolidays) : m # n => hHolidays[m] # hHolidays[n]
        /\ \A n \in 1..Len(hHolidays) : getFullYear(hHolidays[n]) = hYear
        /\ hHolidays[11] # hHolidays[12]


\* C25: in every run of the LoanCalculator, calculateAmortizationSchedule is
\* invoked (by the submit handler or by the auto-calculate watcher after a
\* field change) only with form values that satisfy loanInputSchema at that
\* moment, the refinement on the dates included
C25_ValidatedBeforeEngine ==
    uiPc \in { "watch", "submit" } =>
        /\ input = formValues
        /\ SchemaAccepts(input)

=============================================================================
